---- MODULE Spec2Model ----
(***************************************************************************)
(* Zone rotation, concurrent NWS fetch and Blogger publish of src/main.py. *)
(*                                                                         *)
(* Strings that the program inspects character by character (the content   *)
(* of last_posted_zone.txt, zone names) are sequences of tokens, so that   *)
(* str.strip() and list membership are computed, not assumed.  Lists whose *)
(* elements the orchestration never inspects (forecast periods, alerts)    *)
(* are abstracted to "data" (non-empty list) and "empty" ([]).             *)
(***************************************************************************)
EXTENDS Integers, Sequences, FiniteSets, TLC

\* ------------------------------------------------------------------------
\* Bounds of the model
\* ------------------------------------------------------------------------
\* number of invocations of main() explored
MaxRuns == 2
\* number of cities per zone (15 in NWS_ZONES)
NumCities == 2

\* ------------------------------------------------------------------------
\* Strings, zones, rotation
\* ------------------------------------------------------------------------
Whitespace == {" ", "\n"}

None == <<"<None>">>

EasternZone == <<"Eastern", " ", "Zone">>
SouthernZone == <<"Southern", " ", "Zone">>
CentralZone == <<"Central", " ", "Zone">>
WesternZone == <<"Western", " ", "Zone">>

ZONE_ROTATION == <<EasternZone, SouthernZone, CentralZone, WesternZone>>

\* the cities of a zone, by position in NWS_ZONES[zone]["cities"]
Cities == 1..NumCities

InList(list, x) == \E i \in 1..Len(list) : list[i] = x

\* list.index(x): position (1-based here) of the first occurrence
index(list, x) == CHOOSE i \in 1..Len(list) : list[i] = x /\ \A j \in 1..(i - 1) : list[j] # x

RECURSIVE lstrip(_)
lstrip(s) == IF s # <<>> /\ Head(s) \in Whitespace THEN lstrip(Tail(s)) ELSE s

RECURSIVE rstrip(_)
rstrip(s) == IF s # <<>> /\ s[Len(s)] \in Whitespace THEN rstrip(SubSeq(s, 1, Len(s) - 1)) ELSE s

\* str.strip()
strip(s) == rstrip(lstrip(s))

\* ------------------------------------------------------------------------
\* The state file last_posted_zone.txt
\* ------------------------------------------------------------------------
File(e, r, t) == [exists |-> e, readable |-> r, text |-> t]

\* contents the file can have before the first run
InitialFiles ==
    { File(FALSE, TRUE, <<>>),                          \* missing
      File(TRUE, FALSE, EasternZone),                   \* permission denied / undecodable
      File(TRUE, TRUE, <<>>),                           \* empty
      File(TRUE, TRUE, <<"\n">>),                       \* whitespace only
      File(TRUE, TRUE, EasternZone),
      File(TRUE, TRUE, SouthernZone),
      File(TRUE, TRUE, CentralZone),
      File(TRUE, TRUE, WesternZone),
      File(TRUE, TRUE, EasternZone \o <<"\n">>),        \* written by an editor or echo
      File(TRUE, TRUE, <<" ">> \o SouthernZone),
      File(TRUE, TRUE, <<"Zone">>),                     \* not a zone name
      File(TRUE, TRUE, <<"Eastern", " ", " ", "Zone">>) }

\* get_last_zone(): exc is TRUE when open()/read() raises something other
\* than FileNotFoundError, which the function does not catch
get_last_zone(f) ==
    IF ~f.exists THEN [exc |-> FALSE, val |-> None]
    ELSE IF ~f.readable THEN [exc |-> TRUE, val |-> None]
    ELSE [exc |-> FALSE, val |-> strip(f.text)]

get_next_zone_no_wrap(last_zone) ==
    LET rotation_list == ZONE_ROTATION
        num_zones == Len(rotation_list)
    IN IF last_zone = None \/ last_zone = <<>> \/ ~InList(rotation_list, last_zone)
       THEN rotation_list[1]
       ELSE LET last_index == index(rotation_list, last_zone)
            IN IF last_index + 1 > num_zones THEN rotation_list[num_zones]
               ELSE rotation_list[last_index + 1]

get_next_zone_default_last(last_zone) ==
    LET rotation_list == ZONE_ROTATION
        num_zones == Len(rotation_list)
    IN IF last_zone = None \/ last_zone = <<>> \/ ~InList(rotation_list, last_zone)
       THEN rotation_list[num_zones]
       ELSE LET last_index == index(rotation_list, last_zone)
            IN rotation_list[(last_index % num_zones) + 1]

\* get_next_zone(), given what get_last_zone() returned.  Python indexes
\* from 0: next_index = (last_index + 1) % num_zones; here from 1.
get_next_zone(last_zone) ==
    LET rotation_list == ZONE_ROTATION
        num_zones == Len(rotation_list)
    IN IF last_zone = None \/ last_zone = <<>> \/ ~InList(rotation_list, last_zone)
       THEN rotation_list[1]
       ELSE LET last_index == index(rotation_list, last_zone)
            IN rotation_list[(last_index % num_zones) + 1]

\* outcomes of open(STATE_FILE, "w") / write for update_last_zone
WriteOutcomes == {"ok", "open_error", "write_error"}

update_last_zone_unwritten(f, zone_name, w) == f

\* update_last_zone(zone_name): every exception is caught and reported as a
\* warning.  open(..., "w") truncates, so an error after a successful open
\* leaves an empty file.
update_last_zone(f, zone_name, w) ==
    CASE w = "ok" -> File(TRUE, TRUE, zone_name)
      [] w = "open_error" -> f
      [] w = "write_error" -> File(TRUE, f.readable, <<>>)

\* ------------------------------------------------------------------------
\* NWS fetch: what one HTTP exchange can be, and what the parsers make of it
\* ------------------------------------------------------------------------
\* "ok": 2xx, well-formed JSON with at least one period / actual alert;
\* "ok_empty": 2xx, well-formed JSON with no period / alert;
\* "null_field": 2xx, JSON in which a nested field of a period or of an
\*   actual alert (dewpoint, relativeHumidity, description, instruction) is null;
\* "404", "500": raise_for_status() raises ClientResponseError;
\* "timeout": ClientTimeout(total=10) expires;
\* "bad_json": response.json() raises.
Responses == {"ok", "ok_empty", "null_field", "404", "500", "timeout", "bad_json"}

Endpoints == {"alerts", "hourly", "daily"}

\* aiohttp.TCPConnector(limit=20): simultaneous connections of the session
ConnectorLimit == 20

\* _get_api_response_async: the decoded JSON, or None when any exception was caught
_get_api_response_async(r) == IF r \in {"ok", "ok_empty", "null_field"} THEN r ELSE "None"

Parsed(e, v) == [exc |-> e, val |-> v]

\* _fetch_alerts_async: properties.get("description", "").strip() raises
\* AttributeError on a null description, outside any try
_fetch_alerts_async(r) ==
    LET alerts_json == _get_api_response_async(r)
    IN CASE alerts_json = "None" -> Parsed(FALSE, "empty")
         [] alerts_json = "ok_empty" -> Parsed(FALSE, "empty")
         [] alerts_json = "null_field" -> Parsed(TRUE, "empty")
         [] alerts_json = "ok" -> Parsed(FALSE, "data")

\* _fetch_hourly_forecast_async: period.get("dewpoint", {}).get("value")
\* raises AttributeError on a null dewpoint, outside any try
_fetch_hourly_forecast_async(r) ==
    LET forecast_json == _get_api_response_async(r)
    IN CASE forecast_json = "None" -> Parsed(FALSE, "empty")
         [] forecast_json = "ok_empty" -> Parsed(FALSE, "empty")
         [] forecast_json = "null_field" -> Parsed(TRUE, "empty")
         [] forecast_json = "ok" -> Parsed(FALSE, "data")

\* _fetch_7_day_forecast_async: reads top-level fields of a period only, so a
\* null nested field is copied through
_fetch_7_day_forecast_async(r) ==
    LET forecast_json == _get_api_response_async(r)
    IN CASE forecast_json = "None" -> Parsed(FALSE, "empty")
         [] forecast_json = "ok_empty" -> Parsed(FALSE, "empty")
         [] forecast_json = "null_field" -> Parsed(FALSE, "data")
         [] forecast_json = "ok" -> Parsed(FALSE, "data")

\* how a response counts for the city: "ok" (2xx and well-formed), "404",
\* or "fail" (any other non-2xx, a timeout, a malformed payload)
StatusClass(r) == CASE r \in {"ok", "ok_empty"} -> "ok"
                    [] r = "404" -> "404"
                    [] OTHER -> "fail"

\* the fetch function of an endpoint, applied to a response
Fetch(e, r) == CASE e = "alerts" -> _fetch_alerts_async(r)
                 [] e = "hourly" -> _fetch_hourly_forecast_async(r)
                 [] e = "daily" -> _fetch_7_day_forecast_async(r)

\* the distinct outcomes of one request, with the class of its response
EndpointOutcomes(e) == {[status |-> StatusClass(r), parsed |-> Fetch(e, r)] : r \in Responses}

\* the distinct outcomes of one request, per endpoint
AlertOutcomes == {_fetch_alerts_async(r) : r \in Responses}
HourlyOutcomes == {[status |-> StatusClass(r), parsed |-> _fetch_hourly_forecast_async(r)] : r \in Responses}
DailyOutcomes == {_fetch_7_day_forecast_async(r) : r \in Responses}

CityData_unnamed(c, a, h, d) ==
    [city |-> 1, alerts |-> a, hourly_forecast |-> h, daily_forecast |-> d,
     has_alerts |-> (a = "data")]

\* the city_data dict of _process_city_forecast_async
CityData(c, a, h, d) ==
    [city |-> c, alerts |-> a, hourly_forecast |-> h, daily_forecast |-> d,
     has_alerts |-> (a = "data")]

\* a city whose task has not returned yet
Pending == [city |-> 0, alerts |-> "pending", hourly_forecast |-> "pending",
            daily_forecast |-> "pending", has_alerts |-> FALSE]

NoData == [cities |-> <<>>, has_alerts |-> FALSE]

ZoneData_reversed(results) ==
    [cities |-> [c \in Cities |-> results[NumCities + 1 - c]],
     has_alerts |-> \E c \in Cities : results[c].has_alerts]

\* get_nws_forecast_async, after gather: the zone_data dict
ZoneData(results) ==
    [cities |-> [c \in Cities |-> results[c]],
     has_alerts |-> \E c \in Cities : results[c].has_alerts]

ZoneHasNoData_cities_only(zone_data) == zone_data.cities = <<>>

ZoneHasNoData_any_list(zone_data) ==
    \/ zone_data.cities = <<>>
    \/ \A i \in 1..Len(zone_data.cities) :
         /\ zone_data.cities[i].hourly_forecast = "empty"
         /\ zone_data.cities[i].daily_forecast = "empty"
         /\ zone_data.cities[i].alerts = "empty"

\* main(): not nws_data.get("cities") or all(not c.get('hourly_forecast') ...)
ZoneHasNoData(zone_data) ==
    \/ zone_data.cities = <<>>
    \/ \A i \in 1..Len(zone_data.cities) : zone_data.cities[i].hourly_forecast = "empty"

\* ------------------------------------------------------------------------
\* Content generation and the local archive, at their interface with main()
\* ------------------------------------------------------------------------
\* the titles a generated post can carry
Titles == {"Heat Wave"}

\* _safe_slug(title): lower(), strip(), drop punctuation, whitespace to "-"
_safe_slug(t) == CASE t = "Heat Wave" -> "heat-wave"
                   [] t = "" -> "post"

\* what generate_content() can return: None, or the dict parsed from the
\* model's JSON, whose keys may be absent or hold empty strings
GenResults ==
    [kind : {"None"}, title : {"absent"}, content_html : {"absent"}]
    \cup [kind : {"dict"}, title : Titles \cup {"", "absent"}, content_html : {"html", "", "absent"}]

\* not blog_payload: None or an empty dict
Falsy(blog_payload) ==
    \/ blog_payload.kind = "None"
    \/ blog_payload.title = "absent" /\ blog_payload.content_html = "absent"

\* PostMeta, reduced to the fields the index is keyed and listed by
PostMeta(date, t) == [id |-> <<date, _safe_slug(t)>>, title |-> t]

UpsertIndex_existing_only(posts, meta) ==
    [i \in 1..Len(posts) |-> IF posts[i].id = meta.id THEN meta ELSE posts[i]]

\* save_post_and_update_indexes: upsert by id = date + slug, newest first
UpsertIndex(posts, meta) ==
    IF \E i \in 1..Len(posts) : posts[i].id = meta.id
    THEN [i \in 1..Len(posts) |-> IF i = index([j \in 1..Len(posts) |-> posts[j].id], meta.id)
                                  THEN meta ELSE posts[i]]
    ELSE <<meta>> \o posts

\* datetime.now(): the date of the newest archived post, or a later one
LatestDate(posts) == IF posts = <<>> THEN 1 ELSE posts[1].id[1]

Dates(posts) == {d \in {LatestDate(posts), LatestDate(posts) + 1} : d <= MaxRuns}

ShouldRecord_always(publish, ok) == TRUE

\* main(), step 7: update_last_zone is called after a successful
\* post_to_blogger, and also when PUBLISH is false
ShouldRecord(publish, ok) == IF publish THEN ok ELSE TRUE

post_to_blogger_without_token(token_ok, http_ok) == http_ok

\* post_to_blogger: a token, then one POST to .../posts/ (always an insert)
post_to_blogger(token_ok, http_ok) == token_ok /\ http_ok

\* ------------------------------------------------------------------------
\* State
\* ------------------------------------------------------------------------
VARIABLES
    stateFile,          \* last_posted_zone.txt
    remote,             \* posts on the blog, in order of creation (titles)
    archive,            \* output_posts/posts_index.json
    runs,               \* completed invocations of main()
    runLimit,           \* invocations explored
    pc,                 \* position of the current invocation in main()
    config,             \* the required environment variables
    PUBLISH,
    target_zone_name,
    fetched,            \* per city and endpoint: result of a fetch task that returned, inside the city's gather
    city_results,       \* results of the per-city tasks inside gather
    nws_data,           \* what get_nws_forecast_async returned
    title,
    content_html,
    success,            \* what post_to_blogger returned: "none" until called
    exit_code,
    outcome,            \* how the current invocation ended, "running" before
    requests,           \* per city and endpoint: GET requests issued in this invocation
    hourlyStatus,       \* per city: how its /forecast/hourly request was answered
    raisedBy,           \* the city whose task raised out of gather, 0 if none
    zoneFailed,         \* generate_content was handed a zone all of whose hourly requests failed
    genCalls,           \* calls of generate_content in this invocation
    updateCalls,        \* calls of update_last_zone in this invocation
    fileAtStart,        \* stateFile, remote, archive when the invocation began
    remoteAtStart,
    archiveAtStart,
    failedZone,         \* the zone of the previous invocation if its publish failed, else None
    attempt,            \* call_gemini_api_with_retry: the loop variable
    apiCalls,           \* calls of client.models.generate_content in this invocation
    sleeps,             \* calls of time.sleep in this invocation
    delays,             \* the arguments of those calls, in ticks
    lastError,          \* how the latest generation call ended
    onlyRetryable,      \* every generation call so far raised APIError 429 or 503
    response_text,      \* what call_gemini_api_with_retry returned or raised
    authCalls,          \* calls of get_oauth_credentials in this invocation
    postRequests,       \* POST requests sent to the Blogger API in this invocation
    raw_html,           \* content_html as the model wrote it
    injected,           \* content_html after the substitution of the markers
    reads,              \* reads of last_posted_zone.txt in this invocation
    lastWrite,          \* how the write of last_posted_zone.txt ended in this invocation
    firstDone,          \* the city whose task returned first in this fetch
    firstOutcome,       \* how the first generation call of this invocation ended
    processed           \* the zones of the latest invocations that ran to their end

vars == <<stateFile, remote, archive, runs, runLimit, pc, config, PUBLISH,
          target_zone_name, fetched, city_results, nws_data, title, content_html,
          success, exit_code, outcome, requests, hourlyStatus, raisedBy, zoneFailed,
          genCalls, updateCalls, fileAtStart, remoteAtStart, archiveAtStart, failedZone,
          attempt, apiCalls, sleeps, delays, lastError, onlyRetryable, response_text,
          authCalls, postRequests, raw_html, injected,
          reads, lastWrite, firstDone, firstOutcome, processed>>

persistent == <<stateFile, remote, archive>>
environment == <<config, PUBLISH, runLimit>>
tasks == <<fetched, city_results>>
fetchlog == <<requests, hourlyStatus, raisedBy, zoneFailed>>
history == <<fileAtStart, remoteAtStart, archiveAtStart, failedZone>>
generation == <<attempt, apiCalls, sleeps, delays, lastError, onlyRetryable, response_text>>
provider == <<authCalls, postRequests>>
substitution == <<raw_html, injected>>
observed == <<reads, lastWrite, firstDone, firstOutcome>>

NoRequests == [c \in Cities |-> [e \in Endpoints |-> 0]]
NoStatus == [c \in Cities |-> "none"]
NoResults == [c \in Cities |-> Pending]
NoneFetched == [c \in Cities |-> [e \in Endpoints |-> "pending"]]

Init ==
    /\ stateFile \in InitialFiles
    /\ remote = <<>>
    /\ archive = <<>>
    /\ runs = 0
    /\ runLimit = MaxRuns
    /\ pc = "done"
    /\ config = "set"
    /\ PUBLISH = FALSE
    /\ target_zone_name = None
    /\ fetched = NoneFetched
    /\ city_results = NoResults
    /\ nws_data = NoData
    /\ title = ""
    /\ content_html = ""
    /\ success = "none"
    /\ exit_code = 0
    /\ outcome = "none"
    /\ requests = NoRequests
    /\ hourlyStatus = NoStatus
    /\ raisedBy = 0
    /\ zoneFailed = FALSE
    /\ genCalls = 0
    /\ updateCalls = 0
    /\ fileAtStart = stateFile
    /\ remoteAtStart = <<>>
    /\ archiveAtStart = <<>>
    /\ failedZone = None
    /\ attempt = 0
    /\ apiCalls = 0
    /\ sleeps = 0
    /\ delays = <<>>
    /\ lastError = "none"
    /\ onlyRetryable = TRUE
    /\ response_text = "none"
    /\ authCalls = 0
    /\ postRequests = 0
    /\ raw_html = <<>>
    /\ injected = <<>>
    /\ reads = 0
    /\ lastWrite = "none"
    /\ firstDone = 0
    /\ firstOutcome = "none"
    /\ processed = <<>>

\* the invocation ends: return (exit status 0) or an uncaught exception (1)
End(o, e) ==
    /\ pc' = "done"
    /\ outcome' = o
    /\ exit_code' = e
    /\ runs' = runs + 1

Continue(next_pc) ==
    /\ pc' = next_pc
    /\ UNCHANGED <<outcome, exit_code, runs>>

\* every city's hourly request failed (non-2xx, timeout or malformed payload)
AllHourlyFailed == \A c \in Cities : hourlyStatus[c] \in {"404", "fail"}

\* ------------------------------------------------------------------------
\* One invocation of main()
\* ------------------------------------------------------------------------
\* the process starts: environment read at import (Section 2 of main.py)
StartRun ==
    /\ pc = "done"
    /\ runs < runLimit
    /\ pc' = "config"
    /\ config' \in {"set", "empty", "unset"}
    /\ PUBLISH' \in BOOLEAN
    /\ target_zone_name' = None
    /\ fetched' = NoneFetched
    /\ city_results' = NoResults
    /\ nws_data' = NoData
    /\ title' = ""
    /\ content_html' = ""
    /\ success' = "none"
    /\ outcome' = "running"
    /\ exit_code' = 0
    /\ requests' = NoRequests
    /\ hourlyStatus' = NoStatus
    /\ raisedBy' = 0
    /\ zoneFailed' = FALSE
    /\ genCalls' = 0
    /\ updateCalls' = 0
    /\ fileAtStart' = stateFile
    /\ remoteAtStart' = remote
    /\ archiveAtStart' = archive
    /\ failedZone' = IF success = "false" THEN target_zone_name ELSE None
    /\ attempt' = 0
    /\ apiCalls' = 0
    /\ sleeps' = 0
    /\ delays' = <<>>
    /\ lastError' = "none"
    /\ onlyRetryable' = TRUE
    /\ response_text' = "none"
    /\ authCalls' = 0
    /\ postRequests' = 0
    /\ reads' = 0
    /\ lastWrite' = "none"
    /\ firstDone' = 0
    /\ firstOutcome' = "none"
    /\ UNCHANGED <<substitution, processed>>
    /\ UNCHANGED <<persistent, runs, runLimit>>

\* main(): the check of the essential configuration.  A variable that is not
\* set leaves the module globals undefined (the import-time try is abandoned),
\* so the test itself raises NameError; an empty one makes main() return.
ConfigCheck ==
    /\ pc = "config"
    /\ CASE config = "unset" -> End("crash", 1)
         [] config = "empty" -> End("config_missing", 0)
         [] config = "set" -> Continue("select")
    /\ UNCHANGED <<persistent, environment, target_zone_name, tasks,
                   nws_data, title, content_html, success, fetchlog, genCalls,
                   updateCalls, history, generation, provider, substitution, observed, processed>>

\* main(), step 1: target_zone_name = get_next_zone()
SelectZone ==
    /\ pc = "select"
    /\ reads' = reads + 1
    /\ LET last == get_last_zone(stateFile)
       IN IF last.exc
          THEN End("crash", 1) /\ UNCHANGED target_zone_name
          ELSE target_zone_name' = get_next_zone(last.val) /\ Continue("fetch")
    /\ UNCHANGED <<persistent, environment, tasks,
                   nws_data, title, content_html, success, fetchlog, genCalls,
                   updateCalls, history, generation, provider, substitution,
                   lastWrite, firstDone, firstOutcome, processed>>

\* what the task of one city can end with: an exception of one of its three
\* parsers, or the three lists of its city_data
CityOutcomes ==
    {IF a.exc \/ h.parsed.exc \/ d.exc
     THEN [exc |-> TRUE, alerts |-> "empty", hourly_forecast |-> "empty", daily_forecast |-> "empty"]
     ELSE [exc |-> FALSE, alerts |-> a.val, hourly_forecast |-> h.parsed.val, daily_forecast |-> d.val] :
     a \in AlertOutcomes, h \in HourlyOutcomes, d \in DailyOutcomes}

\* main(), step 2, as one step: asyncio.run(get_nws_forecast_async(...)) issues
\* the three requests of every city and gathers the city tasks, then main()
\* tests the bundle for empty data.  An exception of a parser leaves the
\* city's gather, then the zone's gather, then asyncio.run and main(), none of
\* which catches it.
FetchZone ==
    /\ pc = "fetch"
    /\ 3 * NumCities <= ConnectorLimit
    /\ requests' = [c \in Cities |-> [e \in Endpoints |-> requests[c][e] + 1]]
    /\ \E got \in [Cities -> CityOutcomes] :
         IF \E c \in Cities : got[c].exc
         THEN End("crash", 1) /\ UNCHANGED nws_data
         ELSE LET zone_data == ZoneData([c \in Cities |->
                      CityData(c, got[c].alerts, got[c].hourly_forecast, got[c].daily_forecast)])
              IN /\ nws_data' = zone_data
                 /\ IF ZoneHasNoData(zone_data)
                    THEN End("no_data", 0)
                    ELSE Continue("generate")
    /\ UNCHANGED <<persistent, environment, target_zone_name, tasks,
                   title, content_html, success, hourlyStatus, raisedBy, zoneFailed,
                   genCalls, updateCalls, history, generation, provider, substitution, observed, processed>>

\* main(), steps 3-5 for one value of blog_payload: "synth_fail" when it is
\* falsy, "crash" when blog_payload["title"] or blog_payload["content_html"]
\* raises KeyError on an absent key, else the two fields main() reads
PayloadOutcome(blog_payload) ==
    IF Falsy(blog_payload)
    THEN [end |-> "synth_fail", title |-> "", content_html |-> ""]
    ELSE IF blog_payload.title = "absent" \/ blog_payload.content_html = "absent"
    THEN [end |-> "crash", title |-> "", content_html |-> ""]
    ELSE [end |-> "none", title |-> blog_payload.title,
          content_html |-> blog_payload.content_html]

PayloadOutcomes == {PayloadOutcome(blog_payload) : blog_payload \in GenResults}

\* main(), steps 3-5: generate_content(nws_data), then the reads of
\* blog_payload.  nws_data is not used afterwards, and is dropped from the state.
Generate ==
    /\ pc = "generate"
    /\ genCalls' = genCalls + 1
    /\ zoneFailed' = AllHourlyFailed
    /\ nws_data' = NoData
    /\ requests' = NoRequests
    /\ hourlyStatus' = NoStatus
    /\ firstDone' = 0
    /\ \E o \in PayloadOutcomes :
         CASE o.end = "synth_fail" -> End("synth_fail", 0) /\ UNCHANGED <<title, content_html>>
           [] o.end = "crash" -> End("crash", 1) /\ UNCHANGED <<title, content_html>>
           [] o.end = "none" -> /\ title' = o.title
                                /\ content_html' = o.content_html
                                /\ Continue("archive")
    /\ UNCHANGED <<persistent, environment, target_zone_name,
                   tasks, success, raisedBy, updateCalls, history, generation, provider, substitution,
                   reads, lastWrite, firstOutcome, processed>>

\* main(), step 6: save_post_and_update_indexes; its file writes are not
\* guarded, so an I/O error ends the invocation
Archive ==
    /\ pc = "archive"
    /\ \E io_ok \in BOOLEAN, date \in Dates(archive) :
         IF io_ok
         THEN /\ archive' = UpsertIndex(archive, PostMeta(date, title))
              /\ Continue("publish")
         ELSE End("crash", 1) /\ UNCHANGED archive
    /\ UNCHANGED <<stateFile, remote, environment, target_zone_name,
                   tasks, nws_data, title, content_html, success,
                   fetchlog, genCalls, updateCalls, history, generation, provider, substitution, observed, processed>>

Publish_unconditional ==
    /\ pc = "publish"
    /\ \E token_ok \in BOOLEAN, http_ok \in BOOLEAN :
         /\ success' = IF post_to_blogger(token_ok, http_ok) THEN "true" ELSE "false"
         /\ remote' = IF post_to_blogger(token_ok, http_ok) THEN Append(remote, title) ELSE remote
         /\ authCalls' = authCalls + 1
         /\ postRequests' = IF token_ok THEN postRequests + 1 ELSE postRequests
    /\ IF success' = "true" THEN Continue("record") ELSE End("publish_fail", 0)
    /\ UNCHANGED <<stateFile, archive, environment, target_zone_name,
                   tasks, nws_data, title, content_html,
                   fetchlog, genCalls, updateCalls, history, generation, substitution, observed, processed>>

\* main(), step 7: publish if PUBLISH, then decide on update_last_zone
Publish ==
    /\ pc = "publish"
    /\ IF PUBLISH
       THEN \E token_ok \in BOOLEAN, http_ok \in BOOLEAN :
              /\ success' = IF post_to_blogger(token_ok, http_ok) THEN "true" ELSE "false"
              /\ remote' = IF post_to_blogger(token_ok, http_ok) THEN Append(remote, title) ELSE remote
              /\ authCalls' = authCalls + 1
              /\ postRequests' = IF token_ok THEN postRequests + 1 ELSE postRequests
       ELSE UNCHANGED <<success, remote, provider>>
    /\ IF ShouldRecord(PUBLISH, success' = "true")
       THEN Continue("record")
       ELSE End("publish_fail", 0)
    /\ UNCHANGED <<stateFile, archive, environment, target_zone_name,
                   tasks, nws_data, title, content_html,
                   fetchlog, genCalls, updateCalls, history, generation, substitution, observed, processed>>

Record_again ==
    /\ pc = "record"
    /\ updateCalls' = updateCalls + 1
    /\ \E w \in WriteOutcomes :
         /\ stateFile' = update_last_zone(stateFile, target_zone_name, w)
         /\ lastWrite' = w
    /\ IF updateCalls = 0
       THEN Continue("record")
       ELSE End(IF PUBLISH THEN "published" ELSE "saved_locally", 0)
    /\ UNCHANGED <<remote, archive, environment, target_zone_name,
                   tasks, nws_data, title, content_html, success,
                   fetchlog, genCalls, history, generation, provider, substitution,
                   reads, firstDone, firstOutcome, processed>>

\* update_last_zone(target_zone_name), the last statement of main()
Record ==
    /\ pc = "record"
    /\ updateCalls' = updateCalls + 1
    /\ \E w \in WriteOutcomes :
         /\ stateFile' = update_last_zone(stateFile, target_zone_name, w)
         /\ lastWrite' = w
    /\ End(IF PUBLISH THEN "published" ELSE "saved_locally", 0)
    /\ UNCHANGED <<remote, archive, environment, target_zone_name,
                   tasks, nws_data, title, content_html, success,
                   fetchlog, genCalls, history, generation, provider, substitution,
                   reads, firstDone, firstOutcome, processed>>

Next ==
    \/ StartRun
    \/ ConfigCheck
    \/ SelectZone
    \/ FetchZone
    \/ Generate
    \/ Archive
    \/ Publish
    \/ Record

Spec == Init /\ [][Next]_vars

\* ------------------------------------------------------------------------
\* One invocation, with the fetch at the granularity of single requests
\* ------------------------------------------------------------------------
FetchFiles == {File(FALSE, TRUE, <<>>), File(TRUE, TRUE, EasternZone)}

InitFetch ==
    /\ stateFile \in FetchFiles
    /\ remote = <<>>
    /\ archive = <<>>
    /\ runs = 0
    /\ runLimit = 1
    /\ pc = "done"
    /\ config = "set"
    /\ PUBLISH = FALSE
    /\ target_zone_name = None
    /\ fetched = NoneFetched
    /\ city_results = NoResults
    /\ nws_data = NoData
    /\ title = ""
    /\ content_html = ""
    /\ success = "none"
    /\ exit_code = 0
    /\ outcome = "none"
    /\ requests = NoRequests
    /\ hourlyStatus = NoStatus
    /\ raisedBy = 0
    /\ zoneFailed = FALSE
    /\ genCalls = 0
    /\ updateCalls = 0
    /\ fileAtStart = stateFile
    /\ remoteAtStart = <<>>
    /\ archiveAtStart = <<>>
    /\ failedZone = None
    /\ attempt = 0
    /\ apiCalls = 0
    /\ sleeps = 0
    /\ delays = <<>>
    /\ lastError = "none"
    /\ onlyRetryable = TRUE
    /\ response_text = "none"
    /\ authCalls = 0
    /\ postRequests = 0
    /\ raw_html = <<>>
    /\ injected = <<>>
    /\ reads = 0
    /\ lastWrite = "none"
    /\ firstDone = 0
    /\ firstOutcome = "none"
    /\ processed = <<>>

\* get_nws_forecast_async: one task per city, each gathering three fetch
\* tasks; every task runs up to its session.get before any response is
\* handled, so all requests are issued here (3 * NumCities is below the
\* connector limit)
BeginFetch ==
    /\ pc = "fetch"
    /\ 3 * NumCities <= ConnectorLimit
    /\ requests' = [c \in Cities |-> [e \in Endpoints |-> requests[c][e] + 1]]
    /\ Continue("gather")
    /\ UNCHANGED <<persistent, environment, target_zone_name,
                   tasks, nws_data, title, content_html, success,
                   hourlyStatus, raisedBy, zoneFailed, genCalls, updateCalls, history, generation, provider, substitution, observed, processed>>

\* alerts, hourly_forecast, daily_forecast = await asyncio.gather(*tasks):
\* the fetch task of endpoint e returns v, the results of the other two
\* tasks of the city stay as they are
Returns_discarding(f, e, v) ==
    IF v = "empty"
    THEN [x \in Endpoints |-> IF x # e /\ f[x] = "pending" THEN "pending" ELSE "empty"]
    ELSE [f EXCEPT ![e] = v]

Returns(f, e, v) == [f EXCEPT ![e] = v]

\* the response to the request of city c to endpoint e arrives and its fetch
\* function parses it.  The fetch tasks of all cities interleave freely; the
\* task of the city returns city_data when its third fetch task has returned
\* (asyncio.gather in _process_city_forecast_async).  An exception of a parser
\* is not caught anywhere up to main().
Receive(c, e) ==
    /\ pc = "gather"
    /\ city_results[c] = Pending
    /\ fetched[c][e] = "pending"
    /\ requests[c][e] > 0
    /\ \E o \in EndpointOutcomes(e) :
         /\ hourlyStatus' = IF e = "hourly" THEN [hourlyStatus EXCEPT ![c] = o.status]
                            ELSE hourlyStatus
         /\ IF o.parsed.exc
            THEN /\ raisedBy' = c
                 /\ End("crash", 1)
                 /\ UNCHANGED <<tasks, firstDone>>
            ELSE LET f == Returns(fetched[c], e, o.parsed.val)
                 IN /\ IF \A x \in Endpoints : f[x] # "pending"
                       THEN /\ city_results' = [city_results EXCEPT ![c] =
                                   CityData(c, f["alerts"], f["hourly"], f["daily"])]
                            /\ fetched' = [fetched EXCEPT ![c] = NoneFetched[c]]
                            /\ firstDone' = IF firstDone = 0 THEN c ELSE firstDone
                       ELSE /\ fetched' = [fetched EXCEPT ![c] = f]
                            /\ UNCHANGED <<city_results, firstDone>>
                    /\ Continue("gather")
                    /\ UNCHANGED raisedBy
    /\ UNCHANGED <<persistent, environment, target_zone_name, nws_data, title,
                   content_html, success, requests, zoneFailed, genCalls,
                   updateCalls, history, generation, provider, substitution,
                   reads, lastWrite, firstOutcome, processed>>

AllReturned_any == \E c \in Cities : city_results[c] # Pending

\* await asyncio.gather(*tasks): every city task has returned
AllReturned == \A c \in Cities : city_results[c] # Pending

\* get_nws_forecast_async returns zone_data once every city task returned
GatherDone ==
    /\ pc = "gather"
    /\ AllReturned
    /\ nws_data' = ZoneData(city_results)
    /\ city_results' = NoResults
    /\ Continue("check")
    /\ UNCHANGED <<persistent, environment, target_zone_name, fetched,
                   title, content_html, success,
                   fetchlog, genCalls, updateCalls, history, generation, provider, substitution, observed, processed>>

\* main(), step 2: the check for empty data
CheckData ==
    /\ pc = "check"
    /\ IF ZoneHasNoData(nws_data)
       THEN End("no_data", 0)
       ELSE Continue("generate")
    /\ UNCHANGED <<persistent, environment, target_zone_name,
                   tasks, nws_data, title, content_html, success,
                   fetchlog, genCalls, updateCalls, history, generation, provider, substitution, observed, processed>>

NextFetch ==
    \/ StartRun
    \/ ConfigCheck
    \/ SelectZone
    \/ BeginFetch
    \/ \E c \in Cities, e \in Endpoints : Receive(c, e)
    \/ GatherDone
    \/ CheckData
    \/ Generate
    \/ Archive
    \/ Publish
    \/ Record

SpecFetch == InitFetch /\ [][NextFetch]_vars

\* ------------------------------------------------------------------------
\* One invocation, with generate_content at the granularity of single calls
\* ------------------------------------------------------------------------
MAX_RETRIES == 5
RETRY_DELAY_SECONDS == 5

\* ticks per second: random.uniform(0, 1) is drawn from 0, 1/Resolution, ..., 1
Resolution == 2

Jitter == 0..Resolution

\* how one call of client.models.generate_content can end:
\* "text": a response with finish_reason STOP or MAX_TOKENS and a text;
\* "finish_fail": a response with another finish_reason (raise Exception);
\* "no_text": a response whose text is None (.strip() raises AttributeError);
\* "api_429", "api_503": errors.APIError with that code;
\* "api_unavailable": errors.APIError with another code and UNAVAILABLE in its message;
\* "api_other": any other errors.APIError (400, 401, 403, 404, 500);
\* "exception": an exception that is no APIError (connection error, timeout,
\*   ValueError of the client library)
CallOutcomes == {"text", "finish_fail", "no_text", "api_429", "api_503",
                 "api_unavailable", "api_other", "exception"}

Handler_no_return(o) ==
    IF o \in {"api_429", "api_503", "api_unavailable", "api_other"} THEN "APIError"
    ELSE "Exception"

\* the clause of the try statement that handles the outcome
Handler(o) == CASE o = "text" -> "return"
                [] o \in {"api_429", "api_503", "api_unavailable", "api_other"} -> "APIError"
                [] OTHER -> "Exception"

is_retryable_error(o) == o \in {"api_503", "api_429", "api_unavailable"}

MayRetry_always(a) == TRUE

\* attempt < MAX_RETRIES - 1
MayRetry(a) == a < MAX_RETRIES - 1

\* the handler sleeps and the loop goes on; otherwise it re-raises
Retried(o, a) == CASE Handler(o) = "APIError" -> MayRetry(a) /\ is_retryable_error(o)
                   [] Handler(o) = "Exception" -> MayRetry(a)
                   [] OTHER -> FALSE

\* RETRY_DELAY_SECONDS * (2 ** attempt) + random.uniform(0, 1), in ticks
backoff(a, j) == RETRY_DELAY_SECONDS * (2 ^ a) * Resolution + j

\* response.text.strip(): a JSON object, text that is no JSON, JSON that is
\* no object, or the empty string
Texts == {"json", "bad_json", "non_object", ""}

json_loads_lenient(text) == [exc |-> FALSE, object |-> TRUE]

\* json.loads(response_text), and whether the value has a get method
json_loads(text) == CASE text = "json" -> [exc |-> FALSE, object |-> TRUE]
                      [] text = "non_object" -> [exc |-> FALSE, object |-> FALSE]
                      [] OTHER -> [exc |-> TRUE, object |-> FALSE]

\* generate_content from the return of call_gemini_api_with_retry on: the
\* values it can return for a response_text ("raised": the call raised,
\* "None": the loop ran out)
Returned(text) ==
    IF text \in {"raised", "None", ""} \/ json_loads(text).exc \/ ~json_loads(text).object
    THEN {p \in GenResults : p.kind = "None"}
    ELSE {p \in GenResults : p.kind = "dict"}

GenFiles == {File(FALSE, TRUE, <<>>), File(TRUE, TRUE, WesternZone)}

InitGen ==
    /\ stateFile \in GenFiles
    /\ remote = <<>>
    /\ archive = <<>>
    /\ runs = 0
    /\ runLimit = 1
    /\ pc = "done"
    /\ config = "set"
    /\ PUBLISH = FALSE
    /\ target_zone_name = None
    /\ fetched = NoneFetched
    /\ city_results = NoResults
    /\ nws_data = NoData
    /\ title = ""
    /\ content_html = ""
    /\ success = "none"
    /\ exit_code = 0
    /\ outcome = "none"
    /\ requests = NoRequests
    /\ hourlyStatus = NoStatus
    /\ raisedBy = 0
    /\ zoneFailed = FALSE
    /\ genCalls = 0
    /\ updateCalls = 0
    /\ fileAtStart = stateFile
    /\ remoteAtStart = <<>>
    /\ archiveAtStart = <<>>
    /\ failedZone = None
    /\ attempt = 0
    /\ apiCalls = 0
    /\ sleeps = 0
    /\ delays = <<>>
    /\ lastError = "none"
    /\ onlyRetryable = TRUE
    /\ response_text = "none"
    /\ authCalls = 0
    /\ postRequests = 0
    /\ raw_html = <<>>
    /\ injected = <<>>
    /\ reads = 0
    /\ lastWrite = "none"
    /\ firstDone = 0
    /\ firstOutcome = "none"
    /\ processed = <<>>

\* main(), step 4: generate_content is called, prunes nws_data into the
\* prompt and enters call_gemini_api_with_retry
CallGenerate ==
    /\ pc = "generate"
    /\ genCalls' = genCalls + 1
    /\ zoneFailed' = AllHourlyFailed
    /\ nws_data' = NoData
    /\ requests' = NoRequests
    /\ hourlyStatus' = NoStatus
    /\ attempt' = 0
    /\ Continue("attempt")
    /\ UNCHANGED <<persistent, environment, target_zone_name, tasks, title,
                   content_html, success, raisedBy, updateCalls, history,
                   apiCalls, sleeps, delays, lastError, onlyRetryable, response_text,
                   provider, substitution, observed, processed>>

\* one iteration of the loop of call_gemini_api_with_retry: the call, then
\* the return, the sleep of a handler, or the raise of a handler
Attempt ==
    /\ pc = "attempt"
    /\ attempt < MAX_RETRIES
    /\ apiCalls' = apiCalls + 1
    /\ \E o \in CallOutcomes :
         /\ lastError' = o
         /\ onlyRetryable' = (onlyRetryable /\ o \in {"api_429", "api_503"})
         /\ firstOutcome' = IF apiCalls = 0 THEN o ELSE firstOutcome
         /\ IF Handler(o) = "return"
            THEN /\ response_text' \in Texts
                 /\ pc' = "process"
                 /\ UNCHANGED <<attempt, sleeps, delays>>
            ELSE IF Retried(o, attempt)
            THEN /\ \E j \in Jitter : delays' = Append(delays, backoff(attempt, j))
                 /\ sleeps' = sleeps + 1
                 /\ attempt' = attempt + 1
                 /\ IF attempt + 1 < MAX_RETRIES
                    THEN pc' = "attempt" /\ UNCHANGED response_text
                    ELSE pc' = "process" /\ response_text' = "None"
            ELSE /\ response_text' = "raised"
                 /\ pc' = "process"
                 /\ UNCHANGED <<attempt, sleeps, delays>>
    /\ UNCHANGED <<persistent, environment, target_zone_name, tasks, nws_data,
                   title, content_html, success, fetchlog, genCalls, updateCalls,
                   history, provider, substitution, outcome, exit_code, runs,
                   reads, lastWrite, firstDone, processed>>

\* generate_content after the call (the except clause, the test of
\* response_text, json.loads, the substitution), then main(), steps 4-5
Process ==
    /\ pc = "process"
    /\ \E blog_payload \in Returned(response_text) :
         LET o == PayloadOutcome(blog_payload)
         IN CASE o.end = "synth_fail" -> End("synth_fail", 0) /\ UNCHANGED <<title, content_html>>
              [] o.end = "crash" -> End("crash", 1) /\ UNCHANGED <<title, content_html>>
              [] o.end = "none" -> /\ title' = o.title
                                   /\ content_html' = o.content_html
                                   /\ Continue("archive")
    /\ UNCHANGED <<persistent, environment, target_zone_name, tasks, nws_data,
                   success, fetchlog, genCalls, updateCalls, history, generation,
                   provider, substitution, observed, processed>>

NextGen ==
    \/ StartRun
    \/ ConfigCheck
    \/ SelectZone
    \/ FetchZone
    \/ CallGenerate
    \/ Attempt
    \/ Process
    \/ Archive
    \/ Publish
    \/ Record

SpecGen == InitGen /\ [][NextGen]_vars

\* ------------------------------------------------------------------------
\* The substitution of the markers in generate_content, on its own
\* ------------------------------------------------------------------------
\* longest content_html, in tokens
MaxLen == 4

IMAGE_MARKER == "[[IMAGE_TAG_HERE]]"
DISCLAIMER_MARKER == "[[DISCLAIMER_HERE]]"

\* build_placeholder_image_tag(zone_name): an img element, then a paragraph
image_tag == <<"<img/>", "<p>live</p>">>

\* DISCLAIMER_HTML: one paragraph
disclaimer_html == <<"<p>source</p>">>

\* content_html is a sequence of tokens: a marker or a piece of other text
Tokens == {"<h2>", IMAGE_MARKER, DISCLAIMER_MARKER}

BoundedSeq(S, n) == UNION {[1..m -> S] : m \in 0..n}

Contents == BoundedSeq(Tokens, MaxLen)

\* str.replace(old, new): every occurrence, from left to right
RECURSIVE replace(_, _, _)
replace(s, old, new) ==
    IF s = <<>> THEN <<>>
    ELSE (IF Head(s) = old THEN new ELSE <<Head(s)>>) \o replace(Tail(s), old, new)

inject_image_only(content) ==
    IF content # <<>> THEN replace(content, IMAGE_MARKER, image_tag) ELSE content

\* generate_content, step 4: if content: the two replace calls in turn
inject(content) ==
    IF content # <<>>
    THEN replace(replace(content, IMAGE_MARKER, image_tag), DISCLAIMER_MARKER, disclaimer_html)
    ELSE content

InitSubst ==
    /\ stateFile = File(FALSE, TRUE, <<>>)
    /\ remote = <<>>
    /\ archive = <<>>
    /\ runs = 0
    /\ runLimit = 0
    /\ pc = "inject"
    /\ config = "set"
    /\ PUBLISH = FALSE
    /\ target_zone_name = None
    /\ fetched = NoneFetched
    /\ city_results = NoResults
    /\ nws_data = NoData
    /\ title = ""
    /\ content_html = ""
    /\ success = "none"
    /\ exit_code = 0
    /\ outcome = "none"
    /\ requests = NoRequests
    /\ hourlyStatus = NoStatus
    /\ raisedBy = 0
    /\ zoneFailed = FALSE
    /\ genCalls = 0
    /\ updateCalls = 0
    /\ fileAtStart = stateFile
    /\ remoteAtStart = <<>>
    /\ archiveAtStart = <<>>
    /\ failedZone = None
    /\ attempt = 0
    /\ apiCalls = 0
    /\ sleeps = 0
    /\ delays = <<>>
    /\ lastError = "none"
    /\ onlyRetryable = TRUE
    /\ response_text = "none"
    /\ authCalls = 0
    /\ postRequests = 0
    /\ raw_html \in Contents
    /\ injected = <<>>
    /\ reads = 0
    /\ lastWrite = "none"
    /\ firstDone = 0
    /\ firstOutcome = "none"
    /\ processed = <<>>

\* content = result.get("content_html", ""), then the substitution
Inject ==
    /\ pc = "inject"
    /\ injected' = inject(raw_html)
    /\ pc' = "injected"
    /\ UNCHANGED <<persistent, environment, target_zone_name, tasks, nws_data,
                   title, content_html, success, fetchlog, genCalls, updateCalls,
                   history, generation, provider, raw_html, outcome, exit_code, runs,
                   observed, processed>>

NextSubst == Inject

SpecSubst == InitSubst /\ [][NextSubst]_vars

\* ------------------------------------------------------------------------
\* The rotation over invocations that run to their end, one step each
\* ------------------------------------------------------------------------
\* the state files an invocation can read
RotationFiles == {f \in InitialFiles : ~get_last_zone(f).exc}

InitRotation ==
    /\ Init
    /\ stateFile \in RotationFiles

\* processed keeps the zone and the state write of the latest
\* Len(ZONE_ROTATION) invocations
Remember(window, entry) ==
    IF Len(window) < Len(ZONE_ROTATION) THEN Append(window, entry)
    ELSE Append(Tail(window), entry)

\* main() from its first statement to its last, in an invocation where the
\* configuration is set, the fetch returns data, generation returns a post,
\* the archive is written and, when PUBLISH is set, the post is accepted.
\* The counter of invocations and the list of the blog are followed up to
\* runLimit.
SuccessfulRun ==
    /\ pc = "done"
    /\ ~get_last_zone(stateFile).exc
    /\ \E publish \in BOOLEAN, t \in Titles, date \in Dates(archive), w \in WriteOutcomes :
         LET zone == get_next_zone(get_last_zone(stateFile).val)
         IN /\ config' = "set"
            /\ PUBLISH' = publish
            /\ reads' = 1
            /\ target_zone_name' = zone
            /\ genCalls' = 1
            /\ title' = t
            /\ content_html' = "html"
            /\ archive' = UpsertIndex(archive, PostMeta(date, t))
            /\ success' = IF publish THEN "true" ELSE "none"
            /\ remote' = IF publish /\ Len(remote) < runLimit THEN Append(remote, t) ELSE remote
            /\ authCalls' = IF publish THEN 1 ELSE 0
            /\ postRequests' = IF publish THEN 1 ELSE 0
            /\ ShouldRecord(publish, post_to_blogger(TRUE, TRUE))
            /\ updateCalls' = 1
            /\ stateFile' = update_last_zone(stateFile, zone, w)
            /\ lastWrite' = w
            /\ processed' = Remember(processed, [zone |-> zone, write |-> w])
            /\ outcome' = IF publish THEN "published" ELSE "saved_locally"
    /\ exit_code' = 0
    /\ runs' = IF runs < runLimit THEN runs + 1 ELSE runs
    /\ fileAtStart' = stateFile
    /\ remoteAtStart' = remote
    /\ archiveAtStart' = archive
    /\ failedZone' = None
    /\ UNCHANGED <<pc, runLimit, tasks, nws_data, fetchlog, generation, substitution,
                   firstDone, firstOutcome>>

NextRotation == SuccessfulRun

\* the scheduler starts the program again and again
SpecRotation == InitRotation /\ [][NextRotation]_vars /\ WF_vars(SuccessfulRun)

TypeOK ==
    /\ pc \in {"done", "config", "select", "fetch", "gather", "check", "generate",
               "attempt", "process", "archive", "publish", "record",
               "inject", "injected"}
    /\ runs \in 0..MaxRuns
    /\ InList(ZONE_ROTATION, target_zone_name) \/ target_zone_name = None
    /\ success \in {"none", "true", "false"}
    /\ exit_code \in {0, 1}
    /\ reads \in 0..1
    /\ lastWrite \in WriteOutcomes \cup {"none"}
    /\ firstDone \in 0..NumCities
    /\ firstOutcome \in CallOutcomes \cup {"none"}
    /\ Len(processed) <= Len(ZONE_ROTATION)

\* ------------------------------------------------------------------------
\* Properties
\* ------------------------------------------------------------------------
\* an invocation has ended
RunEnded == pc = "done" /\ outcome # "none"

\* the current invocation has executed target_zone_name = get_next_zone()
Selected == target_zone_name # None

Successor(i) == IF i = Len(ZONE_ROTATION) THEN 1 ELSE i + 1

Count(seq, x) == Cardinality({i \in 1..Len(seq) : seq[i] = x})

\* cities whose hourly forecast request failed
FailedCities == {c \in Cities : hourlyStatus[c] \in {"404", "fail"}}

\* city d's hourly forecast was fetched, with periods
Succeeded(d) ==
    /\ hourlyStatus[d] = "ok"
    /\ \/ fetched[d]["hourly"] = "data"
       \/ city_results[d].hourly_forecast = "data"
       \/ nws_data # NoData /\ nws_data.cities[d].hourly_forecast = "data"

\* C1: in an invocation that has ended, update_last_zone was called if and
\* only if post_to_blogger returned True, and the state file is unchanged in
\* every other outcome, a run with PUBLISH false included.
C1_AdvanceOnSuccessOnly ==
    RunEnded =>
        /\ (updateCalls > 0) <=> (success = "true")
        /\ success # "true" => stateFile = fileAtStart

\* C2: the blog never holds two posts with the same title, however many
\* invocations published that title.
C2_IdempotentPublish ==
    \A t \in Titles \cup {""} : Count(remote, t) <= 1

\* C3: when the state file holds the i-th name of ZONE_ROTATION, the zone
\* selected by get_next_zone is the next name, and the first after the last.
C3_RotationSuccessor ==
    \A i \in 1..Len(ZONE_ROTATION) :
        (Selected /\ fileAtStart = File(TRUE, TRUE, ZONE_ROTATION[i]))
            => target_zone_name = ZONE_ROTATION[Successor(i)]

C3_Witness ==
    /\ Selected
    /\ fileAtStart = File(TRUE, TRUE, WesternZone)
    /\ target_zone_name = EasternZone
    /\ pc = "fetch"

\* C4 as stated: when the state file is missing, empty, or holds a string
\* that is not a member of ZONE_ROTATION, the selected zone is ZONE_ROTATION[0].
C4_Original ==
    (/\ Selected
     /\ fileAtStart.readable
     /\ \/ ~fileAtStart.exists
        \/ fileAtStart.text = <<>>
        \/ ~InList(ZONE_ROTATION, fileAtStart.text))
        => target_zone_name = ZONE_ROTATION[1]

\* C4, amended: when the state file is missing, or its content with leading
\* and trailing whitespace removed is empty or is not a member of
\* ZONE_ROTATION, the selected zone is ZONE_ROTATION[0].
C4_RotationDefault ==
    (/\ Selected
     /\ fileAtStart.readable
     /\ \/ ~fileAtStart.exists
        \/ strip(fileAtStart.text) = <<>>
        \/ ~InList(ZONE_ROTATION, strip(fileAtStart.text)))
        => target_zone_name = ZONE_ROTATION[1]

C4_Witness ==
    /\ pc = "fetch"
    /\ fileAtStart = File(TRUE, TRUE, <<"Zone">>)
    /\ target_zone_name = EasternZone

\* C5: when reading the state file raises an error other than
\* file-not-found, the invocation still selects ZONE_ROTATION[0] and goes on
\* to the fetch stage.
C5_UnreadableStateDegrades ==
    (/\ outcome # "none"
     /\ config = "set"
     /\ pc \notin {"config", "select"}
     /\ fileAtStart.exists
     /\ ~fileAtStart.readable)
        => target_zone_name = ZONE_ROTATION[1]

\* C6: once post_to_blogger has returned False the state file keeps the
\* content it had when the invocation began, and the next invocation selects
\* the zone of the failed one.
C6_FailedPublishRetriesSameZone ==
    /\ success = "false" => stateFile = fileAtStart
    /\ (failedZone # None /\ Selected) => target_zone_name = failedZone

C6_Witness ==
    /\ failedZone # None
    /\ pc = "fetch"
    /\ target_zone_name = failedZone

\* C7: when k of the N cities failed, 0 < k < N, the bundle handed to
\* generate_content holds exactly N - k city results.
C7_PartialFetchTolerance ==
    (pc = "generate" /\ 0 < Cardinality(FailedCities) /\ Cardinality(FailedCities) < NumCities)
        => Len(nws_data.cities) = NumCities - Cardinality(FailedCities)

\* C8: when the fetch of every city failed, generate_content is not called,
\* nothing is archived or published, and the state file is not written.
C8_ZoneDataExhausted ==
    (AllHourlyFailed \/ zoneFailed) =>
        /\ genCalls = 0
        /\ archive = archiveAtStart
        /\ remote = remoteAtStart
        /\ updateCalls = 0
        /\ stateFile = fileAtStart

C8_Witness ==
    /\ AllHourlyFailed
    /\ pc = "done"
    /\ outcome = "no_data"

\* C9: for each city whose hourly request was answered, /forecast was
\* requested exactly once if the answer was 404 and not at all otherwise.
C9_FallbackEndpoint ==
    \A c \in Cities :
        hourlyStatus[c] # "none" =>
            requests[c]["daily"] = (IF hourlyStatus[c] = "404" THEN 1 ELSE 0)

\* C10: a failed or malformed response for city c, while another city d
\* succeeded, neither makes get_nws_forecast_async raise nor aborts the zone.
C10_FailureIsolation ==
    \A c \in Cities, d \in Cities :
        (c # d /\ (c \in FailedCities \/ raisedBy = c) /\ Succeeded(d))
            => (raisedBy = 0 /\ outcome # "no_data")

\* every generation call made so far failed with APIError 429 or 503
AllFailedRetryable == apiCalls > 0 /\ onlyRetryable

\* call_gemini_api_with_retry has returned or raised
RetryEnded == response_text # "none"

\* C11: when every generation call fails with 429 or 503, the function
\* makes exactly 5 calls and then raises, having slept exactly 4 times; the
\* delay before retry i is 5 * 2^(i-1) seconds plus a jitter in [0, 1], and
\* the delays never decrease.
C11_RetryBound ==
    AllFailedRetryable =>
        /\ apiCalls <= 5
        /\ sleeps = Len(delays)
        /\ \A i \in 1..Len(delays) :
             /\ delays[i] >= 5 * (2 ^ (i - 1)) * Resolution
             /\ delays[i] <= (5 * (2 ^ (i - 1)) + 1) * Resolution
        /\ \A i \in 1..(Len(delays) - 1) : delays[i] <= delays[i + 1]
        /\ pc = "attempt" => sleeps = apiCalls
        /\ RetryEnded => /\ apiCalls = 5
                         /\ sleeps = 4
                         /\ response_text = "raised"

C11_Witness ==
    /\ AllFailedRetryable
    /\ RetryEnded
    /\ apiCalls = 5
    /\ sleeps = 4
    /\ delays[1] = 5 * Resolution + Resolution
    /\ delays[4] = 40 * Resolution
    /\ outcome = "synth_fail"

\* errors that are no rate limit, no transient unavailability and no
\* finish_reason failure
NonTransient == {"api_other", "exception"}

\* C12: after a generation call ended with a non-transient error, the
\* function has raised: no sleep follows that call and no further call is made.
C12_OnlyTransientRetried ==
    lastError \in NonTransient =>
        /\ pc # "attempt"
        /\ sleeps < apiCalls
        /\ response_text = "raised"

\* C13: the invocation goes on to the archive, the publish and the state
\* write only with a title and a content_html that are present and non-empty.
C13_RequiredFields ==
    pc \in {"archive", "publish", "record"} =>
        /\ title \notin {"", "absent"}
        /\ content_html \notin {"", "absent"}

\* the content holds the marker
Holds(content, marker) == \E i \in 1..Len(content) : content[i] = marker

\* every token for itself: a marker becomes its fragment, other text stays
RECURSIVE Expanded(_)
Expanded(content) ==
    IF content = <<>> THEN <<>>
    ELSE (CASE Head(content) = IMAGE_MARKER -> image_tag
            [] Head(content) = DISCLAIMER_MARKER -> disclaimer_html
            [] OTHER -> <<Head(content)>>) \o Expanded(Tail(content))

\* C14: a content_html with neither marker comes out of the substitution
\* unchanged; otherwise each marker that is present is replaced by its
\* fragment, whether or not the other marker is present, and the rest of the
\* text is kept.
C14_MarkerSubstitution ==
    pc = "injected" =>
        /\ (~Holds(raw_html, IMAGE_MARKER) /\ ~Holds(raw_html, DISCLAIMER_MARKER))
              => injected = raw_html
        /\ injected = Expanded(raw_html)
        /\ ~Holds(injected, IMAGE_MARKER) /\ ~Holds(injected, DISCLAIMER_MARKER)

C14_Witness ==
    /\ pc = "injected"
    /\ raw_html = <<"<h2>", DISCLAIMER_MARKER, "<h2>">>
    /\ injected = <<"<h2>", "<p>source</p>", "<h2>">>

\* the invocation issued no request, made no generation call, and wrote
\* neither the archive, the blog nor the state file
NoWork ==
    /\ requests = NoRequests
    /\ genCalls = 0
    /\ authCalls = 0
    /\ postRequests = 0
    /\ updateCalls = 0
    /\ <<stateFile, remote, archive>> = <<fileAtStart, remoteAtStart, archiveAtStart>>

\* C15: an invocation started with a required configuration value missing
\* (not in the environment, or there with an empty value) does no work and
\* ends with a nonzero exit status.
C15_MissingConfigFatal ==
    (outcome # "none" /\ config # "set") =>
        /\ NoWork
        /\ pc = "done" => exit_code # 0

\* how an invocation ends whose zone failed: every fetch failed, the
\* synthesis failed, or the publish failed
ZoneFailures == {"no_data", "synth_fail", "publish_fail"}

\* C16: an invocation whose zone failed ends with an exit status other than
\* 0, the status with which an invocation that fetched, generated and
\* published ends.
C16_ExitStatusReflectsFailure ==
    /\ (RunEnded /\ outcome = "published" /\ success = "true") => exit_code = 0
    /\ (RunEnded /\ outcome \in ZoneFailures) => exit_code # 0

\* the index holds the entry of a post with title t
Archived(t) ==
    \E i \in 1..Len(archive) : archive[i].title = t /\ archive[i].id[2] = _safe_slug(t)

\* C17: when the invocation stands at the publish step the post is in the
\* archive and post_to_blogger has not been called yet; once post_to_blogger
\* has returned, True or False, the post is still in the archive.
C17_LocalCopyKept ==
    /\ pc = "publish" => (Archived(title) /\ success = "none" /\ authCalls = 0)
    /\ (authCalls > 0 \/ success # "none") => Archived(title)

C17_Witness ==
    /\ RunEnded
    /\ success = "false"
    /\ postRequests = 1
    /\ Archived(title)
    /\ Len(archive) = 2

\* C18: in an invocation with PUBLISH false neither get_oauth_credentials
\* nor post_to_blogger is called and no request reaches the blog, and an
\* invocation that got past the archive step has its post in the archive.
C18_DryRun ==
    (outcome # "none" /\ ~PUBLISH) =>
        /\ authCalls = 0
        /\ postRequests = 0
        /\ success = "none"
        /\ remote = remoteAtStart
        /\ (pc \in {"publish", "record"} \/ outcome = "saved_locally") => Archived(title)

C18_Witness ==
    /\ ~PUBLISH
    /\ outcome = "saved_locally"
    /\ archive # archiveAtStart
    /\ authCalls = 0
    /\ remoteAtStart # <<>>

\* get_nws_forecast_async has returned the bundle, every request of every
\* city was issued once and answered, and no fetch task is left
FetchComplete ==
    /\ nws_data # NoData
    /\ Len(nws_data.cities) = NumCities
    /\ \A c \in Cities :
         /\ nws_data.cities[c].alerts \in {"data", "empty"}
         /\ nws_data.cities[c].hourly_forecast \in {"data", "empty"}
         /\ nws_data.cities[c].daily_forecast \in {"data", "empty"}
         /\ hourlyStatus[c] # "none"
         /\ \A e \in Endpoints : requests[c][e] = 1
    /\ fetched = NoneFetched
    /\ city_results = NoResults

\* C19: generate_content is called only with the complete bundle at hand,
\* and nothing is fetched once it was called; post_to_blogger is called only
\* after a generate_content call that returned a post; update_last_zone is
\* called only after the publish step, and after post_to_blogger returned
\* when PUBLISH is true.
C19_StageOrdering ==
    /\ pc = "generate" => (FetchComplete /\ genCalls = 0)
    /\ genCalls > 0 => pc \in {"archive", "publish", "record", "done"}
    /\ pc \in {"archive", "publish"} => (genCalls = 1 /\ authCalls = 0 /\ success = "none")
    /\ authCalls > 0 => (genCalls = 1 /\ pc \in {"record", "done"})
    /\ pc = "record" => (updateCalls = 0 /\ (PUBLISH => (authCalls = 1 /\ success = "true")))
    /\ updateCalls > 0 => (pc = "done" /\ genCalls = 1 /\ (PUBLISH => success = "true"))

C19_Witness ==
    /\ outcome = "published"
    /\ PUBLISH
    /\ genCalls = 1
    /\ authCalls = 1
    /\ updateCalls = 1
    /\ success = "true"

\* call_gemini_api_with_retry raised (retries used up, or an error that is
\* not retried), or returned text that is empty, no JSON, or no JSON object
NoPostTexts == {"raised", "None", "", "bad_json", "non_object"}

\* C20: when generate_content has no post to return, the invocation ends as
\* a synthesis failure with the archive, the blog and the state file as they
\* were and no call to the publisher or to update_last_zone; text that is
\* not valid JSON is followed by no further generation call.
C20_SynthesisFailureAborts ==
    response_text \in NoPostTexts =>
        /\ pc \in {"process", "done"}
        /\ pc = "done" => outcome = "synth_fail"
        /\ <<stateFile, remote, archive>> = <<fileAtStart, remoteAtStart, archiveAtStart>>
        /\ authCalls = 0
        /\ postRequests = 0
        /\ updateCalls = 0
        /\ response_text = "bad_json" => (lastError = "text" /\ apiCalls = sleeps + 1)

C20_Witness ==
    /\ response_text = "bad_json"
    /\ outcome = "synth_fail"
    /\ apiCalls = 2
    /\ PUBLISH

\* post_to_blogger found no valid token: get_oauth_credentials was called and
\* no request went to the Blogger API
AuthFailed == authCalls > 0 /\ postRequests = 0

\* C21: when get_oauth_credentials yields no valid token, post_to_blogger
\* reports failure without sending a request to the Blogger API: the blog is
\* as it was, update_last_zone is not called, the state file is as it was at
\* the start of the invocation and the invocation ends
C21_AuthFailureAbortsPublish ==
    AuthFailed =>
        /\ success = "false"
        /\ remote = remoteAtStart
        /\ updateCalls = 0
        /\ stateFile = fileAtStart
        /\ pc = "done"
        /\ outcome = "publish_fail"

\* an invocation with PUBLISH set archived its post, asked for the token, got
\* none and ended with the state file untouched
C21_Witness ==
    /\ RunEnded
    /\ PUBLISH
    /\ AuthFailed
    /\ Archived(title)
    /\ success = "false"
    /\ stateFile = fileAtStart
    /\ target_zone_name = SouthernZone

\* the responses _get_api_response_async turns into None: a failed request
FailedResponses == {r \in Responses : _get_api_response_async(r) = "None"}

\* the key of city_data that holds the list of an endpoint
Key(e) == CASE e = "alerts" -> "alerts"
            [] e = "hourly" -> "hourly_forecast"
            [] e = "daily" -> "daily_forecast"

\* what the fetch task of endpoint e of city c returned stays with the city,
\* as its pending result or in its city_data
Kept(c, e) ==
    fetched[c][e] # "pending" =>
        \/ fetched'[c][e] = fetched[c][e]
        \/ city_results'[c] # Pending /\ city_results'[c][Key(e)] = fetched[c][e]

Bundled == nws_data # NoData

\* C23: whatever the order in which the responses arrive and the city tasks
\* return, zone_data lists the cities in the order of the zone's city list:
\* entry i is the result of city i
C23_StableResultOrder ==
    /\ \A c \in Cities : city_results[c] # Pending => city_results[c].city = c
    /\ Bundled =>
         /\ Len(nws_data.cities) = NumCities
         /\ \A i \in 1..NumCities : nws_data.cities[i].city = i

\* the task of the last city of the list returned first, and zone_data still
\* starts with city 1 and ends with the last city
C23_Witness ==
    /\ pc = "generate"
    /\ firstDone = NumCities
    /\ nws_data.cities[1].city = 1
    /\ nws_data.cities[NumCities].city = NumCities

\* the entries of zone_data that belong to city c
ResultsOf(c) == {i \in 1..Len(nws_data.cities) : nws_data.cities[i].city = c}

\* C24: zone_data holds at most one result per city (exactly one once it is
\* built), and each endpoint of a city was requested at most once
C24_NoDuplicateResults ==
    /\ \A c \in Cities, e \in Endpoints : requests[c][e] <= 1
    /\ Bundled => \A c \in Cities : Cardinality(ResultsOf(c)) = 1

\* a zone_data whose cities hold the same lists and are still two entries
C24_Witness ==
    /\ pc = "generate"
    /\ Bundled
    /\ \A c \in Cities : Cardinality(ResultsOf(c)) = 1
    /\ \A i \in 1..NumCities :
         /\ nws_data.cities[i].alerts = "data"
         /\ nws_data.cities[i].hourly_forecast = "data"
         /\ nws_data.cities[i].daily_forecast = "empty"

\* update_last_zone was called and its open or its write raised
WriteFailed == updateCalls > 0 /\ lastWrite \in {"open_error", "write_error"}

\* C25: when writing the state file raises after a successful publish,
\* update_last_zone returns normally, the invocation ends as a success with
\* exit status 0, and the state file holds the content it had before (as
\* get_last_zone reads it: up to leading and trailing whitespace)
C25_WriteErrorsTolerated ==
    (RunEnded /\ PUBLISH /\ success = "true" /\ WriteFailed) =>
        /\ outcome = "published"
        /\ exit_code = 0
        /\ strip(stateFile.text) = strip(fileAtStart.text)

\* C26, as stated: every invocation reads the state file exactly once, before
\* any fetch request, and writes it at most once, as its last effect
C26_Original ==
    /\ reads <= 1
    /\ RunEnded => reads = 1
    /\ requests # NoRequests => reads = 1
    /\ updateCalls <= 1
    /\ updateCalls = 1 => pc = "done"

\* C26: every invocation reads the state file at most once, and exactly once
\* when it passes the configuration check; the read comes before any fetch
\* request; the file is written at most once, by the last statement of main()
C26_ReadOnceWriteOnce ==
    /\ reads <= 1
    /\ outcome \in {"config_missing", "crash"} /\ target_zone_name = None /\ config # "set"
         => reads = 0
    /\ config = "set" /\ pc \notin {"config", "select"} /\ outcome # "none" => reads = 1
    /\ requests # NoRequests => reads = 1
    /\ pc \in {"fetch", "gather", "check", "generate", "archive", "publish", "record"}
         => reads = 1
    /\ updateCalls <= 1
    /\ updateCalls = 1 => pc = "done"

\* an invocation read the file, issued its requests afterwards, published and
\* ended with its one write
C26_Witness ==
    /\ RunEnded
    /\ reads = 1
    /\ updateCalls = 1
    /\ lastWrite = "ok"
    /\ outcome = "published"
    /\ stateFile = File(TRUE, TRUE, target_zone_name)
    /\ fileAtStart = File(TRUE, TRUE, EasternZone)

\* C27: for every sequence of outcomes of the generation calls,
\* call_gemini_api_with_retry makes at most MAX_RETRIES calls, makes no call
\* after a call that succeeded, sleeps once after every call while the loop
\* goes on, and has slept once less than it called when it returns or raises
C27_AttemptAccounting ==
    /\ apiCalls <= MAX_RETRIES
    /\ lastError = "text" => pc # "attempt" /\ response_text \in Texts
    /\ pc = "attempt" => sleeps = apiCalls
    /\ RetryEnded => sleeps = apiCalls - 1
    /\ Len(delays) = sleeps

\* the first call was rate-limited, the second returned a text: 2 calls and
\* 1 sleep
C27_Witness ==
    /\ pc = "process"
    /\ firstOutcome = "api_429"
    /\ lastError = "text"
    /\ response_text = "json"
    /\ apiCalls = 2
    /\ sleeps = 1
    /\ Len(delays) = 1

\* C29: an invocation leaves in the state file either the content it found
\* (up to leading and trailing whitespace) or a name of ZONE_ROTATION, and
\* what update_last_zone wrote is the zone the invocation selected
C29_StateValueInvariant ==
    /\ \/ strip(stateFile.text) = strip(fileAtStart.text)
       \/ InList(ZONE_ROTATION, stateFile.text)
    /\ lastWrite = "ok" => stateFile = File(TRUE, TRUE, target_zone_name)

\* C30: main() ends the invocation before generation exactly when the
\* hourly_forecast list of every city is empty, whatever the alerts and the
\* 7-day lists hold; a zone with one non-empty hourly list goes on to
\* generation
C30_AbortOnHourlyOnly ==
    /\ outcome = "no_data" =>
         /\ Bundled
         /\ \A c \in Cities : nws_data.cities[c].hourly_forecast = "empty"
         /\ genCalls = 0
    /\ pc = "generate" =>
         \E c \in Cities : nws_data.cities[c].hourly_forecast = "data"
    /\ pc = "check" /\ (\E c \in Cities : nws_data.cities[c].hourly_forecast = "data")
         => ~ZoneHasNoData(nws_data)

\* an invocation ended before generation although every city has alerts and
\* a 7-day forecast
C30_Witness ==
    /\ RunEnded
    /\ outcome = "no_data"
    /\ genCalls = 0
    /\ \A c \in Cities :
         /\ nws_data.cities[c].hourly_forecast = "empty"
         /\ nws_data.cities[c].daily_forecast = "data"
         /\ nws_data.cities[c].alerts = "data"

\* the zones of the latest Len(ZONE_ROTATION) invocations
Window == [i \in 1..Len(processed) |-> processed[i].zone]

\* entry i + 1 of the window is the successor of entry i in ZONE_ROTATION
Consecutive(i) ==
    Window[i + 1] = ZONE_ROTATION[Successor(index(ZONE_ROTATION, Window[i]))]

\* the window holds every zone once, in the cyclic order of ZONE_ROTATION
RoundRobin ==
    /\ \A i \in 1..(Len(Window) - 1) : Consecutive(i)
    /\ \A z \in 1..Len(ZONE_ROTATION) : Count(Window, ZONE_ROTATION[z]) = 1

\* every invocation of the window but the last wrote the state file
WindowWritten == \A i \in 1..(Len(processed) - 1) : processed[i].write = "ok"

====
